------------------------------ MODULE Spec2Model ------------------------------
(***************************************************************************)
(* Model of query_data.py: the scenario-driven pipeline that queries the   *)
(* JPL Horizons service once per catalogued major body, optionally queries *)
(* the JPL Small-Body Database once, writes one CSV file and prints the    *)
(* per-orbit-class statistics.                                             *)
(***************************************************************************)
EXTENDS Integers, Sequences, FiniteSets, TLC

(***************************************************************************)
(* Bounds of the model (not program constants).                            *)
(***************************************************************************)
\* how far around the minimum accepted limit the --limit inputs range
LimitSpread == 2
\* the largest number of rows one small-body response carries
MaxRows == 2

(***************************************************************************)
(* The Mass Catalog: major_bodies_dict, in dictionary (insertion) order.   *)
(* Keys and masses are kept as the text the program prints for them.       *)
(***************************************************************************)
major_bodies_dict ==
  <<
    [id |-> "199", name |-> "Mercury", orbit_class |-> "PLA", central_body |-> "Sun", mass |-> "3.301011e+23"],
    [id |-> "299", name |-> "Venus", orbit_class |-> "PLA", central_body |-> "Sun", mass |-> "4.86732e+24"],
    [id |-> "399", name |-> "Earth", orbit_class |-> "PLA", central_body |-> "Sun", mass |-> "5.972186e+24"],
    [id |-> "499", name |-> "Mars", orbit_class |-> "PLA", central_body |-> "Sun", mass |-> "6.416928e+23"],
    [id |-> "599", name |-> "Jupiter", orbit_class |-> "PLA", central_body |-> "Sun", mass |-> "1.89813e+27"],
    [id |-> "699", name |-> "Saturn", orbit_class |-> "PLA", central_body |-> "Sun", mass |-> "5.683191e+26"],
    [id |-> "799", name |-> "Uranus", orbit_class |-> "PLA", central_body |-> "Sun", mass |-> "8.681013e+25"],
    [id |-> "899", name |-> "Neptune", orbit_class |-> "PLA", central_body |-> "Sun", mass |-> "1.024096e+26"],
    [id |-> "Ceres", name |-> "Ceres", orbit_class |-> "DWA", central_body |-> "Sun", mass |-> "9.47e+20"],
    [id |-> "999", name |-> "Pluto", orbit_class |-> "DWA", central_body |-> "Sun", mass |-> "1.302933e+22"],
    [id |-> "136199", name |-> "Eris", orbit_class |-> "DWA", central_body |-> "Sun", mass |-> "1.6716e+22"],
    [id |-> "136108", name |-> "Haumea", orbit_class |-> "DWA", central_body |-> "Sun", mass |-> "4.006e+21"],
    [id |-> "136472", name |-> "Makemake", orbit_class |-> "DWA", central_body |-> "Sun", mass |-> "3.1e+21"],
    [id |-> "225088", name |-> "Gonggong", orbit_class |-> "DWA", central_body |-> "Sun", mass |-> "1.75e+21"],
    [id |-> "50000", name |-> "Quaoar", orbit_class |-> "DWA", central_body |-> "Sun", mass |-> "1.4e+21"],
    [id |-> "90377", name |-> "Sedna", orbit_class |-> "DWA", central_body |-> "Sun", mass |-> "1.194e+21"],
    [id |-> "90482", name |-> "Orcus", orbit_class |-> "DWA", central_body |-> "Sun", mass |-> "6.348e+20"],
    [id |-> "120347", name |-> "Salacia", orbit_class |-> "DWA", central_body |-> "Sun", mass |-> "4.922e+20"],
    [id |-> "301", name |-> "Luna", orbit_class |-> "SAT", central_body |-> "Earth", mass |-> "7.345811e+22"],
    [id |-> "401", name |-> "Phobos", orbit_class |-> "SAT", central_body |-> "Mars", mass |-> "1.061919e+16"],
    [id |-> "402", name |-> "Deimos", orbit_class |-> "SAT", central_body |-> "Mars", mass |-> "1440690000000000.0"],
    [id |-> "501", name |-> "Io", orbit_class |-> "SAT", central_body |-> "Jupiter", mass |-> "8.929676e+22"],
    [id |-> "502", name |-> "Europa", orbit_class |-> "SAT", central_body |-> "Jupiter", mass |-> "4.798588e+22"],
    [id |-> "503", name |-> "Ganymede", orbit_class |-> "SAT", central_body |-> "Jupiter", mass |-> "1.481483e+23"],
    [id |-> "504", name |-> "Callisto", orbit_class |-> "SAT", central_body |-> "Jupiter", mass |-> "1.075664e+23"],
    [id |-> "505", name |-> "Amalthea", orbit_class |-> "SAT", central_body |-> "Jupiter", mass |-> "2.465636e+18"],
    [id |-> "506", name |-> "Himalia", orbit_class |-> "SAT", central_body |-> "Jupiter", mass |-> "2.270693e+18"],
    [id |-> "507", name |-> "Elara", orbit_class |-> "SAT", central_body |-> "Jupiter", mass |-> "8.692277e+17"],
    [id |-> "508", name |-> "Pasiphae", orbit_class |-> "SAT", central_body |-> "Jupiter", mass |-> "2.997337e+17"],
    [id |-> "509", name |-> "Sinope", orbit_class |-> "SAT", central_body |-> "Jupiter", mass |-> "7.493342e+16"],
    [id |-> "510", name |-> "Lysithea", orbit_class |-> "SAT", central_body |-> "Jupiter", mass |-> "6.294407e+16"],
    [id |-> "511", name |-> "Carme", orbit_class |-> "SAT", central_body |-> "Jupiter", mass |-> "1.318828e+17"],
    [id |-> "512", name |-> "Ananke", orbit_class |-> "SAT", central_body |-> "Jupiter", mass |-> "2.997337e+16"],
    [id |-> "513", name |-> "Leda", orbit_class |-> "SAT", central_body |-> "Jupiter", mass |-> "1.094028e+16"],
    [id |-> "514", name |-> "Thebe", orbit_class |-> "SAT", central_body |-> "Jupiter", mass |-> "4.517042e+17"],
    [id |-> "515", name |-> "Adrastea", orbit_class |-> "SAT", central_body |-> "Jupiter", mass |-> "2082622000000000.0"],
    [id |-> "516", name |-> "Metis", orbit_class |-> "SAT", central_body |-> "Jupiter", mass |-> "3.747221e+16"],
    [id |-> "517", name |-> "Callirrhoe", orbit_class |-> "SAT", central_body |-> "Jupiter", mass |-> "869227700000000.0"],
    [id |-> "518", name |-> "Themisto", orbit_class |-> "SAT", central_body |-> "Jupiter", mass |-> "689387500000000.0"],
    [id |-> "519", name |-> "Megaclite", orbit_class |-> "SAT", central_body |-> "Jupiter", mass |-> "209813600000000.0"],
    [id |-> "520", name |-> "Taygete", orbit_class |-> "SAT", central_body |-> "Jupiter", mass |-> "164853500000000.0"],
    [id |-> "521", name |-> "Chaldene", orbit_class |-> "SAT", central_body |-> "Jupiter", mass |-> "74933420000000.0"],
    [id |-> "522", name |-> "Harpalyke", orbit_class |-> "SAT", central_body |-> "Jupiter", mass |-> "119893500000000.0"],
    [id |-> "523", name |-> "Kalyke", orbit_class |-> "SAT", central_body |-> "Jupiter", mass |-> "194826900000000.0"],
    [id |-> "524", name |-> "Iocaste", orbit_class |-> "SAT", central_body |-> "Jupiter", mass |-> "194826900000000.0"],
    [id |-> "525", name |-> "Erinome", orbit_class |-> "SAT", central_body |-> "Jupiter", mass |-> "44960050000000.0"],
    [id |-> "526", name |-> "Isonoe", orbit_class |-> "SAT", central_body |-> "Jupiter", mass |-> "74933420000000.0"],
    [id |-> "527", name |-> "Praxidike", orbit_class |-> "SAT", central_body |-> "Jupiter", mass |-> "434613800000000.0"],
    [id |-> "528", name |-> "Autonoe", orbit_class |-> "SAT", central_body |-> "Jupiter", mass |-> "89920110000000.0"],
    [id |-> "529", name |-> "Thyone", orbit_class |-> "SAT", central_body |-> "Jupiter", mass |-> "89920110000000.0"],
    [id |-> "530", name |-> "Hermippe", orbit_class |-> "SAT", central_body |-> "Jupiter", mass |-> "89920110000000.0"],
    [id |-> "531", name |-> "Aitne", orbit_class |-> "SAT", central_body |-> "Jupiter", mass |-> "44960050000000.0"],
    [id |-> "532", name |-> "Eurydome", orbit_class |-> "SAT", central_body |-> "Jupiter", mass |-> "44960050000000.0"],
    [id |-> "533", name |-> "Euanthe", orbit_class |-> "SAT", central_body |-> "Jupiter", mass |-> "44960050000000.0"],
    [id |-> "534", name |-> "Euporie", orbit_class |-> "SAT", central_body |-> "Jupiter", mass |-> "14986680000000.0"],
    [id |-> "535", name |-> "Orthosie", orbit_class |-> "SAT", central_body |-> "Jupiter", mass |-> "14986680000000.0"],
    [id |-> "536", name |-> "Sponde", orbit_class |-> "SAT", central_body |-> "Jupiter", mass |-> "14986680000000.0"],
    [id |-> "537", name |-> "Kale", orbit_class |-> "SAT", central_body |-> "Jupiter", mass |-> "14986680000000.0"],
    [id |-> "538", name |-> "Pasithee", orbit_class |-> "SAT", central_body |-> "Jupiter", mass |-> "14986680000000.0"],
    [id |-> "539", name |-> "Hegemone", orbit_class |-> "SAT", central_body |-> "Jupiter", mass |-> "44960050000000.0"],
    [id |-> "540", name |-> "Mneme", orbit_class |-> "SAT", central_body |-> "Jupiter", mass |-> "14986680000000.0"],
    [id |-> "541", name |-> "Aoede", orbit_class |-> "SAT", central_body |-> "Jupiter", mass |-> "89920110000000.0"],
    [id |-> "542", name |-> "Thelxinoe", orbit_class |-> "SAT", central_body |-> "Jupiter", mass |-> "14986680000000.0"],
    [id |-> "543", name |-> "Arche", orbit_class |-> "SAT", central_body |-> "Jupiter", mass |-> "44960050000000.0"],
    [id |-> "544", name |-> "Kallichore", orbit_class |-> "SAT", central_body |-> "Jupiter", mass |-> "14986680000000.0"],
    [id |-> "545", name |-> "Helike", orbit_class |-> "SAT", central_body |-> "Jupiter", mass |-> "89920110000000.0"],
    [id |-> "546", name |-> "Carpo", orbit_class |-> "SAT", central_body |-> "Jupiter", mass |-> "44960050000000.0"],
    [id |-> "547", name |-> "Eukelade", orbit_class |-> "SAT", central_body |-> "Jupiter", mass |-> "89920110000000.0"],
    [id |-> "548", name |-> "Cyllene", orbit_class |-> "SAT", central_body |-> "Jupiter", mass |-> "14986680000000.0"],
    [id |-> "549", name |-> "Kore", orbit_class |-> "SAT", central_body |-> "Jupiter", mass |-> "14986680000000.0"],
    [id |-> "550", name |-> "Herse", orbit_class |-> "SAT", central_body |-> "Jupiter", mass |-> "14986680000000.0"],
    [id |-> "553", name |-> "Dia", orbit_class |-> "SAT", central_body |-> "Jupiter", mass |-> "5520000000000.0"],
    [id |-> "557", name |-> "Eirene", orbit_class |-> "SAT", central_body |-> "Jupiter", mass |-> "5520000000000.0"],
    [id |-> "558", name |-> "Philophrosyne", orbit_class |-> "SAT", central_body |-> "Jupiter", mass |-> "2760000000000.0"],
    [id |-> "560", name |-> "Eupheme", orbit_class |-> "SAT", central_body |-> "Jupiter", mass |-> "2760000000000.0"],
    [id |-> "562", name |-> "Valetudo", orbit_class |-> "SAT", central_body |-> "Jupiter", mass |-> "1380000000000.0"],
    [id |-> "565", name |-> "Pandia", orbit_class |-> "SAT", central_body |-> "Jupiter", mass |-> "4140000000000.0"],
    [id |-> "571", name |-> "Ersa", orbit_class |-> "SAT", central_body |-> "Jupiter", mass |-> "4140000000000.0"],
    [id |-> "601", name |-> "Mimas", orbit_class |-> "SAT", central_body |-> "Saturn", mass |-> "3.75095e+19"],
    [id |-> "602", name |-> "Enceladus", orbit_class |-> "SAT", central_body |-> "Saturn", mass |-> "1.080321e+20"],
    [id |-> "603", name |-> "Tethys", orbit_class |-> "SAT", central_body |-> "Saturn", mass |-> "6.174978e+20"],
    [id |-> "604", name |-> "Dione", orbit_class |-> "SAT", central_body |-> "Saturn", mass |-> "1.09549e+21"],
    [id |-> "605", name |-> "Rhea", orbit_class |-> "SAT", central_body |-> "Saturn", mass |-> "2.306492e+21"],
    [id |-> "606", name |-> "Titan", orbit_class |-> "SAT", central_body |-> "Saturn", mass |-> "1.345184e+23"],
    [id |-> "607", name |-> "Hyperion", orbit_class |-> "SAT", central_body |-> "Saturn", mass |-> "5.551031e+18"],
    [id |-> "608", name |-> "Iapetus", orbit_class |-> "SAT", central_body |-> "Saturn", mass |-> "1.805665e+21"],
    [id |-> "609", name |-> "Phoebe", orbit_class |-> "SAT", central_body |-> "Saturn", mass |-> "8.312297e+18"],
    [id |-> "610", name |-> "Janus", orbit_class |-> "SAT", central_body |-> "Saturn", mass |-> "1.896482e+18"],
    [id |-> "611", name |-> "Epimetheus", orbit_class |-> "SAT", central_body |-> "Saturn", mass |-> "5.26249e+17"],
    [id |-> "612", name |-> "Helene", orbit_class |-> "SAT", central_body |-> "Saturn", mass |-> "7127989000000000.0"],
    [id |-> "613", name |-> "Telesto", orbit_class |-> "SAT", central_body |-> "Saturn", mass |-> "4046405000000000.0"],
    [id |-> "614", name |-> "Calypso", orbit_class |-> "SAT", central_body |-> "Saturn", mass |-> "2547736000000000.0"],
    [id |-> "615", name |-> "Atlas", orbit_class |-> "SAT", central_body |-> "Saturn", mass |-> "5571944000000000.0"],
    [id |-> "616", name |-> "Prometheus", orbit_class |-> "SAT", central_body |-> "Saturn", mass |-> "1.610972e+17"],
    [id |-> "617", name |-> "Pandora", orbit_class |-> "SAT", central_body |-> "Saturn", mass |-> "1.391959e+17"],
    [id |-> "618", name |-> "Pan", orbit_class |-> "SAT", central_body |-> "Saturn", mass |-> "4945606000000000.0"],
    [id |-> "619", name |-> "Ymir", orbit_class |-> "SAT", central_body |-> "Saturn", mass |-> "4945606000000000.0"],
    [id |-> "620", name |-> "Paaliaq", orbit_class |-> "SAT", central_body |-> "Saturn", mass |-> "8242676000000000.0"],
    [id |-> "621", name |-> "Tarvos", orbit_class |-> "SAT", central_body |-> "Saturn", mass |-> "2697603000000000.0"],
    [id |-> "622", name |-> "Ijiraq", orbit_class |-> "SAT", central_body |-> "Saturn", mass |-> "1198935000000000.0"],
    [id |-> "623", name |-> "Suttungr", orbit_class |-> "SAT", central_body |-> "Saturn", mass |-> "209813600000000.0"],
    [id |-> "624", name |-> "Kiviuq", orbit_class |-> "SAT", central_body |-> "Saturn", mass |-> "3297071000000000.0"],
    [id |-> "625", name |-> "Mundilfari", orbit_class |-> "SAT", central_body |-> "Saturn", mass |-> "209813600000000.0"],
    [id |-> "626", name |-> "Albiorix", orbit_class |-> "SAT", central_body |-> "Saturn", mass |-> "2.098136e+16"],
    [id |-> "627", name |-> "Skathi", orbit_class |-> "SAT", central_body |-> "Saturn", mass |-> "314720400000000.0"],
    [id |-> "628", name |-> "Erriapus", orbit_class |-> "SAT", central_body |-> "Saturn", mass |-> "764320900000000.0"],
    [id |-> "629", name |-> "Siarnaq", orbit_class |-> "SAT", central_body |-> "Saturn", mass |-> "3.896538e+16"],
    [id |-> "630", name |-> "Thrymr", orbit_class |-> "SAT", central_body |-> "Saturn", mass |-> "209813600000000.0"],
    [id |-> "631", name |-> "Narvi", orbit_class |-> "SAT", central_body |-> "Saturn", mass |-> "344693700000000.0"],
    [id |-> "632", name |-> "Methone", orbit_class |-> "SAT", central_body |-> "Saturn", mass |-> "8992011000000.0"],
    [id |-> "633", name |-> "Pallene", orbit_class |-> "SAT", central_body |-> "Saturn", mass |-> "32970710000000.0"],
    [id |-> "634", name |-> "Polydeuces", orbit_class |-> "SAT", central_body |-> "Saturn", mass |-> "4496005000000.0"],
    [id |-> "635", name |-> "Daphnis", orbit_class |-> "SAT", central_body |-> "Saturn", mass |-> "77930760000000.0"],
    [id |-> "636", name |-> "Aegir", orbit_class |-> "SAT", central_body |-> "Saturn", mass |-> "259900000000000.0"],
    [id |-> "637", name |-> "Bebhionn", orbit_class |-> "SAT", central_body |-> "Saturn", mass |-> "259900000000000.0"],
    [id |-> "638", name |-> "Bergelmir", orbit_class |-> "SAT", central_body |-> "Saturn", mass |-> "259900000000000.0"],
    [id |-> "639", name |-> "Bestla", orbit_class |-> "SAT", central_body |-> "Saturn", mass |-> "414000000000000.0"],
    [id |-> "640", name |-> "Farbauti", orbit_class |-> "SAT", central_body |-> "Saturn", mass |-> "149500000000000.0"],
    [id |-> "641", name |-> "Fenrir", orbit_class |-> "SAT", central_body |-> "Saturn", mass |-> "78200000000000.0"],
    [id |-> "642", name |-> "Fornjot", orbit_class |-> "SAT", central_body |-> "Saturn", mass |-> "8280000000000.0"],
    [id |-> "643", name |-> "Hati", orbit_class |-> "SAT", central_body |-> "Saturn", mass |-> "259900000000000.0"],
    [id |-> "644", name |-> "Hyrrokkin", orbit_class |-> "SAT", central_body |-> "Saturn", mass |-> "259900000000000.0"],
    [id |-> "645", name |-> "Kari", orbit_class |-> "SAT", central_body |-> "Saturn", mass |-> "259900000000000.0"],
    [id |-> "646", name |-> "Loge", orbit_class |-> "SAT", central_body |-> "Saturn", mass |-> "259900000000000.0"],
    [id |-> "647", name |-> "Skoll", orbit_class |-> "SAT", central_body |-> "Saturn", mass |-> "259900000000000.0"],
    [id |-> "648", name |-> "Surtur", orbit_class |-> "SAT", central_body |-> "Saturn", mass |-> "259900000000000.0"],
    [id |-> "649", name |-> "Anthe", orbit_class |-> "SAT", central_body |-> "Saturn", mass |-> "1498668000000.0"],
    [id |-> "650", name |-> "Jarnsaxa", orbit_class |-> "SAT", central_body |-> "Saturn", mass |-> "259900000000000.0"],
    [id |-> "651", name |-> "Greip", orbit_class |-> "SAT", central_body |-> "Saturn", mass |-> "259900000000000.0"],
    [id |-> "652", name |-> "Tarqeq", orbit_class |-> "SAT", central_body |-> "Saturn", mass |-> "259900000000000.0"],
    [id |-> "653", name |-> "Aegaeon", orbit_class |-> "SAT", central_body |-> "Saturn", mass |-> "59946740000.0"],
    [id |-> "701", name |-> "Ariel", orbit_class |-> "SAT", central_body |-> "Uranus", mass |-> "1.250524e+21"],
    [id |-> "702", name |-> "Umbriel", orbit_class |-> "SAT", central_body |-> "Uranus", mass |-> "1.274945e+21"],
    [id |-> "703", name |-> "Titania", orbit_class |-> "SAT", central_body |-> "Uranus", mass |-> "3.400272e+21"],
    [id |-> "704", name |-> "Oberon", orbit_class |-> "SAT", central_body |-> "Uranus", mass |-> "3.076338e+21"],
    [id |-> "705", name |-> "Miranda", orbit_class |-> "SAT", central_body |-> "Uranus", mass |-> "6.471884e+19"],
    [id |-> "706", name |-> "Cordelia", orbit_class |-> "SAT", central_body |-> "Uranus", mass |-> "4.496005e+16"],
    [id |-> "707", name |-> "Ophelia", orbit_class |-> "SAT", central_body |-> "Uranus", mass |-> "5.395206e+16"],
    [id |-> "708", name |-> "Bianca", orbit_class |-> "SAT", central_body |-> "Uranus", mass |-> "9.291744e+16"],
    [id |-> "709", name |-> "Cressida", orbit_class |-> "SAT", central_body |-> "Uranus", mass |-> "3.431951e+17"],
    [id |-> "710", name |-> "Desdemona", orbit_class |-> "SAT", central_body |-> "Uranus", mass |-> "1.783415e+17"],
    [id |-> "711", name |-> "Juliet", orbit_class |-> "SAT", central_body |-> "Uranus", mass |-> "5.575047e+17"],
    [id |-> "712", name |-> "Portia", orbit_class |-> "SAT", central_body |-> "Uranus", mass |-> "1.681506e+18"],
    [id |-> "713", name |-> "Rosalind", orbit_class |-> "SAT", central_body |-> "Uranus", mass |-> "2.547736e+17"],
    [id |-> "714", name |-> "Belinda", orbit_class |-> "SAT", central_body |-> "Uranus", mass |-> "3.566831e+17"],
    [id |-> "715", name |-> "Puck", orbit_class |-> "SAT", central_body |-> "Uranus", mass |-> "2.893929e+18"],
    [id |-> "716", name |-> "Caliban", orbit_class |-> "SAT", central_body |-> "Uranus", mass |-> "2.997337e+17"],
    [id |-> "717", name |-> "Sycorax", orbit_class |-> "SAT", central_body |-> "Uranus", mass |-> "2.697603e+18"],
    [id |-> "718", name |-> "Prospero", orbit_class |-> "SAT", central_body |-> "Uranus", mass |-> "9.891212e+16"],
    [id |-> "719", name |-> "Setebos", orbit_class |-> "SAT", central_body |-> "Uranus", mass |-> "8.692277e+16"],
    [id |-> "720", name |-> "Stephano", orbit_class |-> "SAT", central_body |-> "Uranus", mass |-> "2.547736e+16"],
    [id |-> "721", name |-> "Trinculo", orbit_class |-> "SAT", central_body |-> "Uranus", mass |-> "4645872000000000.0"],
    [id |-> "722", name |-> "Francisco", orbit_class |-> "SAT", central_body |-> "Uranus", mass |-> "8392543000000000.0"],
    [id |-> "723", name |-> "Margaret", orbit_class |-> "SAT", central_body |-> "Uranus", mass |-> "6294407000000000.0"],
    [id |-> "724", name |-> "Ferdinand", orbit_class |-> "SAT", central_body |-> "Uranus", mass |-> "6294407000000000.0"],
    [id |-> "725", name |-> "Perdita", orbit_class |-> "SAT", central_body |-> "Uranus", mass |-> "1.8e+16"],
    [id |-> "726", name |-> "Mab", orbit_class |-> "SAT", central_body |-> "Uranus", mass |-> "1000000000000000.0"],
    [id |-> "727", name |-> "Cupid", orbit_class |-> "SAT", central_body |-> "Uranus", mass |-> "3800000000000000.0"],
    [id |-> "801", name |-> "Triton", orbit_class |-> "SAT", central_body |-> "Neptune", mass |-> "2.140299e+22"],
    [id |-> "802", name |-> "Nereid", orbit_class |-> "SAT", central_body |-> "Neptune", mass |-> "3.087257e+19"],
    [id |-> "803", name |-> "Naiad", orbit_class |-> "SAT", central_body |-> "Neptune", mass |-> "1.278083e+17"],
    [id |-> "804", name |-> "Thalassa", orbit_class |-> "SAT", central_body |-> "Neptune", mass |-> "3.534274e+17"],
    [id |-> "805", name |-> "Despina", orbit_class |-> "SAT", central_body |-> "Neptune", mass |-> "1.74898e+18"],
    [id |-> "806", name |-> "Galatea", orbit_class |-> "SAT", central_body |-> "Neptune", mass |-> "2.845228e+18"],
    [id |-> "807", name |-> "Larissa", orbit_class |-> "SAT", central_body |-> "Neptune", mass |-> "3.818296e+18"],
    [id |-> "808", name |-> "Proteus", orbit_class |-> "SAT", central_body |-> "Neptune", mass |-> "3.870713e+19"],
    [id |-> "809", name |-> "Halimede", orbit_class |-> "SAT", central_body |-> "Neptune", mass |-> "8.992011e+16"],
    [id |-> "810", name |-> "Psamathe", orbit_class |-> "SAT", central_body |-> "Neptune", mass |-> "1.498668e+16"],
    [id |-> "811", name |-> "Sao", orbit_class |-> "SAT", central_body |-> "Neptune", mass |-> "8.992011e+16"],
    [id |-> "812", name |-> "Laomedeia", orbit_class |-> "SAT", central_body |-> "Neptune", mass |-> "8.992011e+16"],
    [id |-> "813", name |-> "Neso", orbit_class |-> "SAT", central_body |-> "Neptune", mass |-> "1.648535e+17"],
    [id |-> "814", name |-> "Hippocamp", orbit_class |-> "SAT", central_body |-> "Neptune", mass |-> "1.5e+16"],
    [id |-> "901", name |-> "Charon", orbit_class |-> "SAT", central_body |-> "Pluto", mass |-> "1.586388e+21"],
    [id |-> "902", name |-> "Nix", orbit_class |-> "SAT", central_body |-> "Pluto", mass |-> "4.567048e+16"],
    [id |-> "903", name |-> "Hydra", orbit_class |-> "SAT", central_body |-> "Pluto", mass |-> "4.811065e+16"],
    [id |-> "904", name |-> "Kerberos", orbit_class |-> "SAT", central_body |-> "Pluto", mass |-> "1.663162e+16"],
    [id |-> "905", name |-> "Styx", orbit_class |-> "SAT", central_body |-> "Pluto", mass |-> "7500000000000000.0"]
  >>

\* the value Python's None / JSON's null takes in a row
None == "None"

\* argparse choices of -s/--scenario
Scenarios == {"planets_and_moons", "scenario1", "scenario2", "full"}

\* the values of -l/--limit the model tries: absent, or an integer
Limits ==
  {-1, 0} \cup ((Len(major_bodies_dict) + 1 - LimitSpread) .. (Len(major_bodies_dict) + 1 + LimitSpread))

\* the parsed command lines: limit_given is "args.limit is not None"
ArgsSet ==
  [scenario : Scenarios, limit_given : {FALSE}, limit : {0}]
    \cup [scenario : Scenarios, limit_given : {TRUE}, limit : Limits]

\* the CSV header row
Header ==
  <<"e", "a", "i", "om", "w", "ma", "epoch", "H", "albedo", "diameter", "class", "name", "mass", "central_body">>

\* the epoch every ephemeris request is made at
Epoch == "2451544.5"

(***************************************************************************)
(* csv.writer: a row is written as its fields joined by the delimiter,     *)
(* followed by the writer's line terminator.  A line of the file is kept   *)
(* as the sequence of its tokens up to os.linesep.                         *)
(***************************************************************************)
\* how csv.writer renders one value: None becomes the empty field
CsvField(v) == IF v = None THEN "" ELSE v

RECURSIVE CsvJoin(_)
CsvJoin(row) ==
  IF row = <<>> THEN <<>>
  ELSE IF Len(row) = 1 THEN <<CsvField(Head(row))>>
  ELSE <<CsvField(Head(row)), ",">> \o CsvJoin(Tail(row))

\* lineterminator=os.linesep
PlainTerminator == <<>>
\* SmallBodyTerminator with one empty trailing field only
SingleCommaTerminator == <<",">>

\* lineterminator=",,{}".format(os.linesep)
SmallBodyTerminator == <<",", ",">>

\* the line csv.writer produces for one row
CsvLine(terminator, row) == CsvJoin(row) \o terminator

\* writer.writerow(row)
WriteRow(file, terminator, row) == Append(file, CsvLine(terminator, row))

\* writer.writerows(rows): one line per row, in the order of the rows
WriteRows(file, terminator, rows) ==
  file \o [k \in 1..Len(rows) |-> CsvLine(terminator, rows[k])]

\* reading a line back: the comma-separated fields of a line of the file
RECURSIVE SplitFields(_, _)
SplitFields(line, cur) ==
  IF line = <<>> THEN <<cur>>
  ELSE IF Head(line) = "," THEN <<cur>> \o SplitFields(Tail(line), "")
  ELSE SplitFields(Tail(line), Head(line))

Fields(line) == SplitFields(line, "")

(***************************************************************************)
(* Major-body fetch.                                                       *)
(***************************************************************************)
\* the location context of one catalogue entry
LocationQuery(body) ==
  IF body.central_body = "Sun" THEN <<"@sun">>
  ELSE IF body.central_body = "Earth" THEN <<"Geocentric">>
  ELSE <<body.central_body, " Barycenter">>

\* the units the ephemeris service may report the semi-major axis in
AxisUnits == {"au", "km"}

\* a well-formed elements() table for a request
Elements(request, unit) ==
  [e |-> "e", a |-> [value |-> IF unit = "au" THEN "a_au" ELSE "a_km", unit |-> unit],
   incl |-> "incl", Omega |-> "Omega", w |-> "w", M |-> "M", datetime_jd |-> request.epochs]

\* eph["a"].convert_unit_to('au')
ConvertUnitToAU(col) ==
  IF col.unit = "au" THEN col ELSE [value |-> "a_au", unit |-> "au"]

\* HorizonsRow with the mass and the central body in each other's column
HorizonsRowSwapped(eph, body) ==
  <<eph.e, ConvertUnitToAU(eph.a).value, eph.incl, eph.Omega, eph.w, eph.M, eph.datetime_jd,
    "", "", "", body.orbit_class, body.name, body.central_body, body.mass>>

\* the row appended to jpl_horizons_data for one body
HorizonsRow(eph, body) ==
  <<eph.e, ConvertUnitToAU(eph.a).value, eph.incl, eph.Omega, eph.w, eph.M, eph.datetime_jd,
    "", "", "", body.orbit_class, body.name, body.mass, body.central_body>>

VARIABLES
  pc,                 \* the statement the script is at
  argv,               \* the command line as it was given
  args,               \* the parsed command line (args.limit is rewritten by the script)
  csvfile,            \* the lines of the output file
  writer,             \* the line terminator of the current csv.writer
  body_index,         \* how many entries of major_bodies_dict the loop has visited
  jpl_horizons_data,  \* the rows collected from Horizons
  horizons_requests,  \* every ephemeris request issued so far
  sb_requests,        \* every small-body request issued so far
  jpl_sb_data,        \* the "data" rows of the small-body response
  orbit_classes,      \* the class counters
  stdout,             \* what was printed: tagged lines
  error               \* the exception that ended the run, if any

vars ==
  <<pc, argv, args, csvfile, writer, body_index, jpl_horizons_data, horizons_requests,
    sb_requests, jpl_sb_data, orbit_classes, stdout, error>>

NoError == [type |-> "none", value |-> 0]

\* the 17 known orbit-class codes, in the order of the dictionary
OrbitClassCodes ==
  <<"PLA", "DWA", "SAT", "IEO", "ATE", "APO", "AMO", "MCA", "IMB", "MBA", "OMB", "TJN", "AST",
    "CEN", "TNO", "PAA", "HYA">>

KnownCodes == {OrbitClassCodes[k] : k \in 1..Len(OrbitClassCodes)}

\* orbit_classes as constructed: every counter zero
ZeroCounters == [c \in KnownCodes |-> 0]

Init ==
  /\ pc = "sanity_check"
  /\ argv \in ArgsSet
  /\ args = argv
  /\ csvfile = <<>>
  /\ writer = PlainTerminator
  /\ body_index = 0
  /\ jpl_horizons_data = <<>>
  /\ horizons_requests = <<>>
  /\ sb_requests = <<>>
  /\ jpl_sb_data = <<>>
  /\ orbit_classes = ZeroCounters
  /\ stdout = <<>>
  /\ error = NoError

\* raise: the run ends with the exception
Raise(type, value) ==
  /\ pc' = "aborted"
  /\ error' = [type |-> type, value |-> value]

\* SanityError without the check that scenario2 comes with a limit
SanityErrorLimitOnly(a) ==
  IF a.scenario /= "scenario2" /\ a.limit_given THEN "limit_without_scenario2" ELSE "ok"

\* which sanity check of the command line fails, if any
SanityError(a) ==
  IF a.scenario /= "scenario2" /\ a.limit_given THEN "limit_without_scenario2"
  ELSE IF a.scenario = "scenario2" /\ ~a.limit_given THEN "scenario2_without_limit"
  ELSE "ok"

\* lines 40-46: sanity check command line parameters
SanityCheck ==
  /\ pc = "sanity_check"
  /\ IF SanityError(args) /= "ok"
       THEN /\ Raise("ValueError", 0)
            /\ UNCHANGED stdout
       ELSE /\ pc' = "open_output"
            /\ stdout' = Append(stdout, [kind |-> "generating", value |-> 0])
            /\ UNCHANGED error
  /\ UNCHANGED <<argv, args, csvfile, writer, body_index, jpl_horizons_data, horizons_requests,
                 sb_requests, jpl_sb_data, orbit_classes>>

\* lines 48-52: open the output file (truncating it) and write the header
OpenOutput ==
  /\ pc = "open_output"
  /\ writer' = PlainTerminator
  /\ csvfile' = WriteRow(<<>>, PlainTerminator, Header)
  /\ pc' = "query_horizons"
  /\ UNCHANGED <<argv, args, body_index, jpl_horizons_data, horizons_requests, sb_requests,
                 jpl_sb_data, orbit_classes, stdout, error>>

\* the request of one loop iteration
HorizonsRequest(body) == [id |-> body.id, location |-> LocationQuery(body), epochs |-> Epoch]

\* QueryHorizons that writes each row to the file as soon as it is fetched
QueryHorizonsStreaming ==
  /\ pc = "query_horizons"
  /\ body_index < Len(major_bodies_dict)
  /\ LET body == major_bodies_dict[body_index + 1]
         request == HorizonsRequest(body)
     IN /\ horizons_requests' = Append(horizons_requests, request)
        /\ \E unit \in AxisUnits :
             /\ jpl_horizons_data' =
                  Append(jpl_horizons_data, HorizonsRow(Elements(request, unit), body))
             /\ csvfile' = WriteRow(csvfile, writer, HorizonsRow(Elements(request, unit), body))
  /\ body_index' = body_index + 1
  /\ UNCHANGED <<pc, argv, args, writer, sb_requests, jpl_sb_data, orbit_classes, stdout, error>>

\* lines 277-292: one iteration of the loop, the ephemeris being well formed
QueryHorizons ==
  /\ pc = "query_horizons"
  /\ body_index < Len(major_bodies_dict)
  /\ LET body == major_bodies_dict[body_index + 1]
         request == HorizonsRequest(body)
     IN /\ horizons_requests' = Append(horizons_requests, request)
        /\ \E unit \in AxisUnits :
             jpl_horizons_data' =
               Append(jpl_horizons_data, HorizonsRow(Elements(request, unit), body))
  /\ body_index' = body_index + 1
  /\ UNCHANGED <<pc, argv, args, csvfile, writer, sb_requests, jpl_sb_data, orbit_classes, stdout, error>>

\* lines 285-289: one iteration of the loop, the ephemeris missing or malformed
QueryHorizonsFails ==
  /\ pc = "query_horizons"
  /\ body_index < Len(major_bodies_dict)
  /\ horizons_requests' =
       Append(horizons_requests, HorizonsRequest(major_bodies_dict[body_index + 1]))
  /\ Raise("MalformedResponse", 0)
  /\ UNCHANGED <<argv, args, csvfile, writer, body_index, jpl_horizons_data, sb_requests, jpl_sb_data,
                 orbit_classes, stdout>>

\* lines 294-298: write bundled data to file
WriteHorizons ==
  /\ pc = "query_horizons"
  /\ body_index = Len(major_bodies_dict)
  /\ csvfile' = WriteRows(csvfile, writer, jpl_horizons_data)
  /\ stdout' = Append(stdout, [kind |-> "horizons_time", value |-> 0])
  /\ pc' = "check_limit"
  /\ UNCHANGED <<argv, args, writer, body_index, jpl_horizons_data, horizons_requests, sb_requests,
                 jpl_sb_data, orbit_classes, error>>

\* line 301: the limit is smaller than the number of planets and moons + 1
LimitTooSmall(a, data) == a.limit < Len(data) + 1

\* AdjustedLimit that forgets the planets and moons already added
AdjustedLimitSunOnly(a, data) == a.limit - 1

\* AdjustedLimit that forgets the Sun
AdjustedLimitWithoutSun(a, data) == a.limit - Len(data)

\* line 306: args.limit -= len(jpl_horizons_data) + 1
AdjustedLimit(a, data) == a.limit - (Len(data) + 1)

\* lines 300-314: validate the limit against the major bodies fetched, reduce it by them, and
\* go on to the small bodies unless the scenario is planets_and_moons
CheckLimit ==
  /\ pc = "check_limit"
  /\ IF args.limit_given /\ LimitTooSmall(args, jpl_horizons_data)
       THEN /\ Raise("ValueError", Len(jpl_horizons_data) + 1)
            /\ UNCHANGED args
       ELSE /\ args' = IF args.limit_given
                         THEN [args EXCEPT !.limit = AdjustedLimit(args, jpl_horizons_data)]
                         ELSE args
            /\ pc' = IF args.scenario /= "planets_and_moons" THEN "small_bodies" ELSE "statistics"
            /\ UNCHANGED error
  /\ UNCHANGED <<argv, csvfile, writer, body_index, jpl_horizons_data, horizons_requests,
                 sb_requests, jpl_sb_data, orbit_classes, stdout>>

(***************************************************************************)
(* Small-body fetch.                                                       *)
(***************************************************************************)
\* string.whitespace
Whitespace == {" ", "\t", "\n", "\r", "\\x0b", "\f"}

\* the raw query string of scenario1, token by token
Scenario1Query ==
  <<"\n", " ", "{", "\n", " ",
      "\"AND\"", ":", " ", "[", "\n", " ",
        "{", " ", "\"AND\"", " ", ":", " ", "[", " ", "\"diameter|DF\"", ",", " ", "\"albedo|DF\"", " ", "]", " ", "}", ",", "\n", " ",
        "{", " ", "\"OR\"", " ", ":", " ", "[", " ", "\"class|NE|MBA\"", ",", " ", "\"diameter|GE|10\"", " ", "]", " ", "}", "\n", " ",
      "]", "\n", " ",
    "}", "\n", " ">>

\* query.translate({ord(c): None for c in string.whitespace})
Minify(query) == SelectSeq(query, LAMBDA t : t \notin Whitespace)

\* urllib.parse.quote of one token
QuoteToken(t) ==
  CASE t = "{" -> "%7B"
    [] t = "}" -> "%7D"
    [] t = "[" -> "%5B"
    [] t = "]" -> "%5D"
    [] t = ":" -> "%3A"
    [] t = "," -> "%2C"
    [] t = " " -> "%20"
    [] t = "\n" -> "%0A"
    [] t = "\"AND\"" -> "%22AND%22"
    [] t = "\"OR\"" -> "%22OR%22"
    [] t = "\"diameter|DF\"" -> "%22diameter%7CDF%22"
    [] t = "\"albedo|DF\"" -> "%22albedo%7CDF%22"
    [] t = "\"class|NE|MBA\"" -> "%22class%7CNE%7CMBA%22"
    [] t = "\"class|EQ|MBA\"" -> "%22class%7CEQ%7CMBA%22"
    [] t = "\"diameter|GE|10\"" -> "%22diameter%7CGE%7C10%22"
    [] OTHER -> t

\* urllib.parse.quote(query)
Quote(query) == [k \in 1..Len(query) |-> QuoteToken(query[k])]

\* Constraint that sends the filter in every scenario but scenario2
ConstraintFilterUnlessScenario2(a) ==
  IF a.scenario /= "scenario2"
    THEN [param |-> "sb-cdata", cdata |-> Quote(Minify(Scenario1Query)), limit |-> 0]
  ELSE [param |-> "limit", cdata |-> <<>>, limit |-> a.limit]

\* lines 330-347: the constraint appended to the request
Constraint(a) ==
  IF a.scenario = "scenario1"
    THEN [param |-> "sb-cdata", cdata |-> Quote(Minify(Scenario1Query)), limit |-> 0]
  ELSE IF a.scenario = "scenario2"
    THEN [param |-> "limit", cdata |-> <<>>, limit |-> a.limit]
  ELSE [param |-> "", cdata |-> <<>>, limit |-> 0]

\* the fields asked of the small-body service
SbFields == <<"e", "a", "i", "om", "w", "ma", "epoch", "H", "albedo", "diameter", "class", "full_name">>

\* line 352: the GET request
SbRequest(a) ==
  [url |-> "https://ssd-api.jpl.nasa.gov/sbdb_query.api", full_prec |-> TRUE, fields |-> SbFields,
   constraint |-> Constraint(a), sb_kind |-> "a"]

(***************************************************************************)
(* What the small-body service makes of an sb-cdata constraint: it decodes *)
(* the parameter, reads the JSON and applies the filter to each body.      *)
(***************************************************************************)
\* percent-decoding of one token
UnquoteToken(t) ==
  CASE t = "%7B" -> "{"
    [] t = "%7D" -> "}"
    [] t = "%5B" -> "["
    [] t = "%5D" -> "]"
    [] t = "%3A" -> ":"
    [] t = "%2C" -> ","
    [] t = "%20" -> " "
    [] t = "%0A" -> "\n"
    [] t = "%22AND%22" -> "\"AND\""
    [] t = "%22OR%22" -> "\"OR\""
    [] t = "%22diameter%7CDF%22" -> "\"diameter|DF\""
    [] t = "%22albedo%7CDF%22" -> "\"albedo|DF\""
    [] t = "%22class%7CNE%7CMBA%22" -> "\"class|NE|MBA\""
    [] t = "%22class%7CEQ%7CMBA%22" -> "\"class|EQ|MBA\""
    [] t = "%22diameter%7CGE%7C10%22" -> "\"diameter|GE|10\""
    [] OTHER -> t

Unquote(cdata) == [k \in 1..Len(cdata) |-> UnquoteToken(cdata[k])]

\* a "field|operator|value" string of the filter
ParseTerm(t) ==
  CASE t = "\"diameter|DF\"" -> [op |-> "TERM", field |-> "diameter", cmp |-> "DF", value |-> 0]
    [] t = "\"albedo|DF\"" -> [op |-> "TERM", field |-> "albedo", cmp |-> "DF", value |-> 0]
    [] t = "\"class|NE|MBA\"" -> [op |-> "TERM", field |-> "class", cmp |-> "NE", value |-> "MBA"]
    [] t = "\"class|EQ|MBA\"" -> [op |-> "TERM", field |-> "class", cmp |-> "EQ", value |-> "MBA"]
    [] t = "\"diameter|GE|10\"" -> [op |-> "TERM", field |-> "diameter", cmp |-> "GE", value |-> 10]

\* the key of an {"AND": [...]} or {"OR": [...]} object
ParseKey(t) == IF t = "\"AND\"" THEN "AND" ELSE "OR"

\* the JSON of the filter, read from its tokens: the node read and the tokens left
RECURSIVE ParseNode(_), ParseItems(_)
ParseNode(ts) ==
  IF Head(ts) = "{"
    THEN LET items == ParseItems(SubSeq(ts, 5, Len(ts)))
         IN [node |-> [op |-> ParseKey(ts[2]), args |-> items.nodes], rest |-> Tail(items.rest)]
    ELSE [node |-> ParseTerm(Head(ts)), rest |-> Tail(ts)]

ParseItems(ts) ==
  LET first == ParseNode(ts)
  IN IF Head(first.rest) = ","
       THEN LET more == ParseItems(Tail(first.rest))
            IN [nodes |-> <<first.node>> \o more.nodes, rest |-> more.rest]
       ELSE [nodes |-> <<first.node>>, rest |-> Tail(first.rest)]

\* the filter an sb-cdata parameter stands for (JSON ignores whitespace between tokens)
ParseFilter(cdata) ==
  ParseNode(SelectSeq(Unquote(cdata), LAMBDA t : t \notin Whitespace)).node

\* one term of the filter applied to a body: DF is "defined", NE "not equal", GE ">="
EvalTerm(term, body) ==
  CASE term.cmp = "DF" -> body[term.field].defined
    [] term.cmp = "NE" -> body[term.field].defined /\ body[term.field].value /= term.value
    [] term.cmp = "EQ" -> body[term.field].defined /\ body[term.field].value = term.value
    [] term.cmp = "GE" -> body[term.field].defined /\ body[term.field].value >= term.value

RECURSIVE EvalFilter(_, _)
EvalFilter(node, body) ==
  IF node.op = "AND" THEN \A k \in 1..Len(node.args) : EvalFilter(node.args[k], body)
  ELSE IF node.op = "OR" THEN \E k \in 1..Len(node.args) : EvalFilter(node.args[k], body)
  ELSE EvalTerm(node, body)

\* lines 314-352: switch the writer, build the constraint and issue the request
SendSmallBodyRequest ==
  /\ pc = "small_bodies"
  /\ writer' = SmallBodyTerminator
  /\ sb_requests' = Append(sb_requests, SbRequest(args))
  /\ pc' = "sb_response"
  /\ UNCHANGED <<argv, args, csvfile, body_index, jpl_horizons_data, horizons_requests, jpl_sb_data,
                 orbit_classes, stdout, error>>

\* the HTTP status codes the service answers with
StatusCodes == {200, 400, 503}

\* the rows the service may return: 12 fields each, null where a value is unknown
SbRows ==
  { <<"e", "a", "i", "om", "w", "ma", "epoch", "H", "albedo", "diameter", "MBA", "name">>,
    <<"e", "a", "i", "om", "w", "ma", "epoch", None, None, None, "APO", "name">>,
    <<"e", "a", "i", "om", "w", "ma", "epoch", "H", None, None, "XXX", "name">> }

\* the "data" arrays of at most n rows
RECURSIVE SbData(_)
SbData(n) ==
  IF n = 0 THEN {<<>>}
  ELSE LET shorter == SbData(n - 1)
       IN shorter \cup {Append(d, r) : d \in {s \in shorter : Len(s) = n - 1}, r \in SbRows}

\* SmallBodyRequestFails that reports the status and carries on
SmallBodyRequestFailsIgnored ==
  /\ pc = "sb_response"
  /\ \E status \in StatusCodes \ {200} :
       error' = [type |-> "RuntimeError", value |-> status]
  /\ pc' = "statistics"
  /\ UNCHANGED <<argv, args, csvfile, writer, body_index, jpl_horizons_data, horizons_requests,
                 sb_requests, jpl_sb_data, orbit_classes, stdout>>

\* lines 354-357: the request was not successful
SmallBodyRequestFails ==
  /\ pc = "sb_response"
  /\ \E status \in StatusCodes \ {200} : Raise("RuntimeError", status)
  /\ UNCHANGED <<argv, args, csvfile, writer, body_index, jpl_horizons_data, horizons_requests,
                 sb_requests, jpl_sb_data, orbit_classes, stdout>>

\* lines 354-365: status 200; parse the response and write all queried bodies
SmallBodyResponse ==
  /\ pc = "sb_response"
  /\ \E data \in SbData(MaxRows) :
       /\ jpl_sb_data' = data
       /\ csvfile' = WriteRows(csvfile, writer, data)
  /\ stdout' = Append(stdout, [kind |-> "sbdb_time", value |-> 0])
  /\ pc' = "statistics"
  /\ UNCHANGED <<argv, args, writer, body_index, jpl_horizons_data, horizons_requests, sb_requests,
                 orbit_classes, error>>

(***************************************************************************)
(* Statistics.                                                             *)
(***************************************************************************)
\* Produced that leaves the small bodies out
ProducedHorizonsOnly(a, horizons, sb) == horizons

\* the records the tally visits, in order
Produced(a, horizons, sb) ==
  IF a.scenario /= "planets_and_moons" THEN horizons \o sb ELSE horizons

\* orbit_classes[row[10]][1] += 1 for every row: each counter grows by the number of rows
\* that carry its code
Tally(counters, rows) ==
  [c \in DOMAIN counters |->
     counters[c] + Cardinality({k \in 1..Len(rows) : rows[k][11] = c})]

\* TotalNumberOfBodies that counts the Sun in
RECURSIVE TotalNumberOfBodiesWithSun(_, _)
TotalNumberOfBodiesWithSun(counters, codes) ==
  IF codes = <<>> THEN 1
  ELSE counters[Head(codes)] + TotalNumberOfBodiesWithSun(counters, Tail(codes))

\* total_number_of_bodies, summed over the dictionary
RECURSIVE TotalNumberOfBodies(_, _)
TotalNumberOfBodies(counters, codes) ==
  IF codes = <<>> THEN 0
  ELSE counters[Head(codes)] + TotalNumberOfBodies(counters, Tail(codes))

\* the table handed to tabulate: one line per class, in dictionary order
Table(counters) ==
  [k \in 1..Len(OrbitClassCodes) |-> <<OrbitClassCodes[k], counters[OrbitClassCodes[k]]>>]

\* UnknownCode that looks at the first record only
UnknownCodeFirstOnly(rows) == rows /= <<>> /\ rows[1][11] \notin KnownCodes

\* lines 395 and 398: some record's code is not a key of orbit_classes
UnknownCode(rows) == \E k \in 1..Len(rows) : rows[k][11] \notin KnownCodes

\* lines 373-411: tally the records, print the table and the total
Statistics ==
  /\ pc = "statistics"
  /\ LET rows == Produced(args, jpl_horizons_data, jpl_sb_data)
     IN IF UnknownCode(rows)
          THEN /\ Raise("KeyError", 0)
               /\ UNCHANGED <<orbit_classes, stdout>>
          ELSE LET counters == Tally(ZeroCounters, rows)
                   total == TotalNumberOfBodies(counters, OrbitClassCodes)
               IN /\ orbit_classes' = counters
                  /\ stdout' = stdout \o <<[kind |-> "table", value |-> Table(counters)],
                                           [kind |-> "total", value |-> <<total, total + 1>>]>>
                  /\ pc' = "done"
                  /\ UNCHANGED error
  /\ UNCHANGED <<argv, args, csvfile, writer, body_index, jpl_horizons_data, horizons_requests,
                 sb_requests, jpl_sb_data>>

Next ==
  \/ SanityCheck
  \/ OpenOutput
  \/ QueryHorizons
  \/ QueryHorizonsFails
  \/ WriteHorizons
  \/ CheckLimit
  \/ SendSmallBodyRequest
  \/ SmallBodyRequestFails
  \/ SmallBodyResponse
  \/ Statistics

Spec == Init /\ [][Next]_vars

TypeOK ==
  /\ pc \in {"sanity_check", "open_output", "query_horizons", "check_limit", "small_bodies",
             "sb_response", "statistics", "done", "aborted"}
  /\ body_index \in 0..Len(major_bodies_dict)
  /\ Len(jpl_horizons_data) = body_index


(***************************************************************************)
(* Properties.                                                             *)
(***************************************************************************)
\* something of this kind was printed
Printed(kind) == \E k \in 1..Len(stdout) : stdout[k].kind = kind

\* the "Total number of bodies is {} + 1 (Sun) = {}." line of a completed run
TotalLine == stdout[Len(stdout)].value

\* the lines of the file that follow the header and the major-body rows
SmallBodyLines ==
  IF pc = "query_horizons" THEN {}
  ELSE {k \in 1..Len(csvfile) : k > 1 + Len(jpl_horizons_data)}

\* the presence of --limit matches the scenario
LimitMatchesScenario == (argv.scenario = "scenario2") <=> argv.limit_given

\* C1: a command line whose --limit does not match the scenario (a limit without scenario2,
\* or scenario2 without a limit) is rejected with a ValueError before any request is issued
\* and before the file is touched; only matching command lines get past the sanity check.
C1_LimitPresenceValidated ==
  /\ (~LimitMatchesScenario /\ pc /= "sanity_check") =>
       /\ pc = "aborted"
       /\ error.type = "ValueError"
       /\ horizons_requests = <<>>
       /\ sb_requests = <<>>
       /\ csvfile = <<>>
  /\ (pc \notin {"sanity_check", "aborted"}) => LimitMatchesScenario

C1_Witness ==
  /\ pc = "aborted"
  /\ argv.scenario /= "scenario2"
  /\ argv.limit_given
  /\ error.type = "ValueError"

\* C2: every argument validation error, the limit below the minimum included, aborts the run
\* before any network activity: when the run has ended with a ValueError, no ephemeris
\* request and no small-body request has been issued.
C2_ValidationBeforeNetwork ==
  (pc = "aborted" /\ error.type = "ValueError") =>
    (horizons_requests = <<>> /\ sb_requests = <<>>)

\* C3: in scenario2 with limit L and N major bodies fetched, L < N + 1 ends the run with a
\* ValueError naming N + 1 and no small-body request; otherwise the small-body request
\* carries the cap L - N - 1, which is not negative.
C3_LimitAdjusted ==
  (argv.scenario = "scenario2" /\ argv.limit_given) =>
    LET N == Len(jpl_horizons_data)
        checked == body_index = Len(major_bodies_dict) /\ pc \notin {"query_horizons", "check_limit"}
    IN /\ (checked /\ argv.limit < N + 1) =>
            /\ pc = "aborted"
            /\ error = [type |-> "ValueError", value |-> N + 1]
            /\ sb_requests = <<>>
       /\ (checked /\ argv.limit >= N + 1) => error.type /= "ValueError"
       /\ \A r \in 1..Len(sb_requests) :
            /\ sb_requests[r].constraint.param = "limit"
            /\ sb_requests[r].constraint.limit = argv.limit - N - 1
            /\ sb_requests[r].constraint.limit >= 0

C3_Witness ==
  /\ argv.scenario = "scenario2"
  /\ argv.limit = Len(jpl_horizons_data) + 1
  /\ Len(sb_requests) = 1
  /\ sb_requests[1].constraint.limit = 0

\* the bodies the filter is tried on: class, diameter in km and albedo, each possibly undefined
FilterBodies ==
  [class : [defined : {TRUE}, value : {"MBA", "APO", "TNO"}],
   diameter : [defined : {TRUE}, value : {5, 9, 10, 11, 50}] \cup [defined : {FALSE}, value : {0}],
   albedo : [defined : {TRUE}, value : {1}] \cup [defined : {FALSE}, value : {0}]]

\* the body is selected by the sb-cdata constraint of the request
Selected(request, body) == EvalFilter(ParseFilter(request.constraint.cdata), body)

\* C4 as stated: in scenario1 the filter selects a body iff its diameter and albedo are defined
\* and (its class is MBA or its diameter is at least 10 km); the other scenarios send no filter.
C4_FilterAsStated ==
  \A r \in 1..Len(sb_requests) :
    IF argv.scenario = "scenario1"
      THEN /\ sb_requests[r].constraint.param = "sb-cdata"
           /\ \A b \in FilterBodies :
                Selected(sb_requests[r], b) <=>
                  /\ b.diameter.defined
                  /\ b.albedo.defined
                  /\ (b.class.value = "MBA" \/ b.diameter.value >= 10)
      ELSE /\ sb_requests[r].constraint.param /= "sb-cdata"
           /\ sb_requests[r].constraint.cdata = <<>>

\* C4, amended: in scenario1 the filter selects a body iff its diameter and albedo are defined
\* and (its class is not MBA or its diameter is at least 10 km); the other scenarios send no
\* filter.
C4_FilterScenario1 ==
  \A r \in 1..Len(sb_requests) :
    IF argv.scenario = "scenario1"
      THEN /\ sb_requests[r].constraint.param = "sb-cdata"
           /\ \A b \in FilterBodies :
                Selected(sb_requests[r], b) <=>
                  /\ b.diameter.defined
                  /\ b.albedo.defined
                  /\ (b.class.value /= "MBA" \/ b.diameter.value >= 10)
      ELSE /\ sb_requests[r].constraint.param /= "sb-cdata"
           /\ sb_requests[r].constraint.cdata = <<>>

C4_Witness ==
  /\ argv.scenario = "scenario1"
  /\ Len(sb_requests) = 1
  /\ \E b \in FilterBodies :
       /\ b.class.value = "MBA"
       /\ b.diameter.defined /\ b.diameter.value < 10
       /\ b.albedo.defined
       /\ ~Selected(sb_requests[1], b)
  /\ \E b \in FilterBodies :
       /\ b.class.value /= "MBA"
       /\ b.diameter.defined /\ b.diameter.value < 10
       /\ b.albedo.defined
       /\ Selected(sb_requests[1], b)

\* C5: in planets_and_moons no small-body request is ever issued, and a completed run leaves
\* in the file, after the header, exactly one row per catalogue entry in catalogue order, with
\* 14 fields of which H, albedo and diameter are empty and class, name, mass and central body
\* are the entry's, mass and central body not empty.
C5_MajorBodiesOnly ==
  (argv.scenario = "planets_and_moons") =>
    /\ sb_requests = <<>>
    /\ (pc = "done") =>
         /\ Len(csvfile) = 1 + Len(major_bodies_dict)
         /\ Fields(csvfile[1]) = Header
         /\ \A k \in 1..Len(major_bodies_dict) :
              LET f == Fields(csvfile[k + 1])
                  body == major_bodies_dict[k]
              IN /\ Len(f) = 14
                 /\ f[8] = "" /\ f[9] = "" /\ f[10] = ""
                 /\ f[11] = body.orbit_class
                 /\ f[12] = body.name
                 /\ f[13] = body.mass /\ f[13] /= ""
                 /\ f[14] = body.central_body /\ f[14] /= ""

C5_Witness ==
  /\ argv.scenario = "planets_and_moons"
  /\ pc = "done"
  /\ Len(csvfile) > 1

\* C6: every small-body row written to the file has exactly 14 comma-separated fields, the
\* first 12 being the values the service returned (null as empty) and the 13th and 14th empty.
C6_SmallBodyRows ==
  \A k \in SmallBodyLines :
    LET f == Fields(csvfile[k])
        row == jpl_sb_data[k - 1 - Len(jpl_horizons_data)]
    IN /\ argv.scenario /= "planets_and_moons"
       /\ Len(f) = 14
       /\ \A j \in 1..12 : f[j] = (IF row[j] = None THEN "" ELSE row[j])
       /\ f[13] = ""
       /\ f[14] = ""

C6_Witness ==
  /\ Cardinality(SmallBodyLines) = MaxRows
  /\ \E k \in SmallBodyLines : Fields(csvfile[k])[8] = ""
  /\ \E k \in SmallBodyLines : Fields(csvfile[k])[8] /= ""

\* the number of data rows of the file whose class field is the code
RowsOfClass(code) ==
  Cardinality({k \in 2..Len(csvfile) : Fields(csvfile[k])[11] = code})

\* C7: when a run completes there are 17 counters, each equal to the number of data rows of
\* its class in the file; the printed total is their sum and the number of data rows of the
\* file, and the printed grand total is that sum plus one.
C7_TotalsAgree ==
  (pc = "done") =>
    /\ Cardinality(DOMAIN orbit_classes) = 17
    /\ \A c \in DOMAIN orbit_classes : orbit_classes[c] = RowsOfClass(c)
    /\ TotalLine[1] = TotalNumberOfBodies(orbit_classes, OrbitClassCodes)
    /\ TotalLine[1] = Len(csvfile) - 1
    /\ TotalLine[2] = TotalLine[1] + 1
    /\ \A c \in DOMAIN ZeroCounters : ZeroCounters[c] = 0

C7_Witness ==
  /\ pc = "done"
  /\ Len(jpl_sb_data) = MaxRows
  /\ TotalLine[1] = Len(major_bodies_dict) + MaxRows

\* C8 as stated: planets_and_moons on the built-in catalogue of 171 bodies (8 planets, 9 dwarf
\* planets, the rest moons) writes 171 data rows and prints "= 172", every class being PLA,
\* DWA or SAT.
C8_Catalogue171 ==
  (pc = "done" /\ argv.scenario = "planets_and_moons") =>
    /\ Len(csvfile) - 1 = 171
    /\ TotalLine = <<171, 172>>
    /\ RowsOfClass("PLA") = 8
    /\ RowsOfClass("DWA") = 9
    /\ \A k \in 2..Len(csvfile) : Fields(csvfile[k])[11] \in {"PLA", "DWA", "SAT"}

\* C8, amended: planets_and_moons on the built-in catalogue of 177 bodies (8 planets, 10 dwarf
\* planets, 159 moons) writes 177 data rows and prints "= 178", every class being PLA, DWA or
\* SAT.
C8_Catalogue177 ==
  (pc = "done" /\ argv.scenario = "planets_and_moons") =>
    /\ Len(csvfile) - 1 = 177
    /\ TotalLine = <<177, 178>>
    /\ RowsOfClass("PLA") = 8
    /\ RowsOfClass("DWA") = 10
    /\ RowsOfClass("SAT") = 159
    /\ \A k \in 2..Len(csvfile) : Fields(csvfile[k])[11] \in {"PLA", "DWA", "SAT"}

C8_Witness ==
  /\ pc = "done"
  /\ argv.scenario = "planets_and_moons"
  /\ Printed("total")
  /\ orbit_classes["SAT"] > 0

\* C9: at most one small-body request is issued; a status other than 200 ends the run with a
\* RuntimeError carrying that status, after exactly one request, with no small-body row
\* written and neither the table nor the total printed; a completed run that includes small
\* bodies issued exactly one request.
C9_TransportError ==
  /\ Len(sb_requests) <= 1
  /\ (pc = "sb_response") => Len(sb_requests) = 1
  /\ (error.type = "RuntimeError") =>
       /\ pc = "aborted"
       /\ error.value \in StatusCodes \ {200}
       /\ Len(sb_requests) = 1
       /\ jpl_sb_data = <<>>
       /\ Len(csvfile) = 1 + Len(jpl_horizons_data)
       /\ ~Printed("table")
       /\ ~Printed("total")
       /\ ~Printed("sbdb_time")
  /\ (pc = "done" /\ argv.scenario /= "planets_and_moons") => Len(sb_requests) = 1
  /\ (Len(sb_requests) = 1 /\ pc \in {"statistics", "done"}) => error.type /= "RuntimeError"

C9_Witness ==
  /\ error.type = "RuntimeError"
  /\ error.value = 503
  /\ Len(sb_requests) = 1

\* a record handed to the tally carries a code outside the 17 known ones
ForeignCode ==
  \E k \in 1..Len(jpl_horizons_data \o jpl_sb_data) :
    (jpl_horizons_data \o jpl_sb_data)[k][11] \notin
      {"PLA", "DWA", "SAT", "IEO", "ATE", "APO", "AMO", "MCA", "IMB", "MBA", "OMB", "TJN", "AST",
       "CEN", "TNO", "PAA", "HYA"}

\* C10: a run whose records include a code outside the 17 known ones ends in the tally with a
\* KeyError and prints neither the table nor the total; a run that printed the table or the
\* total tallied only records with known codes.
C10_ClassificationError ==
  /\ (ForeignCode /\ pc \in {"done", "aborted"}) =>
       /\ pc = "aborted"
       /\ error.type = "KeyError"
       /\ ~Printed("table")
       /\ ~Printed("total")
  /\ (error.type = "KeyError") => (ForeignCode /\ pc = "aborted")
  /\ (Printed("table") \/ Printed("total")) => (~ForeignCode /\ pc = "done")
  /\ (pc = "done") => (Printed("table") /\ Printed("total"))

C10_Witness ==
  /\ error.type = "KeyError"
  /\ pc = "aborted"
  /\ Len(jpl_sb_data) = MaxRows
  /\ Len(csvfile) = 1 + Len(major_bodies_dict) + MaxRows

\* C11: a malformed or missing ephemeris response for any catalogue entry ends the run, however
\* many earlier bodies were fetched: the file holds the header only, no small-body request
\* was issued, and neither the table nor the total was printed.
C11_MalformedEphemerisFatal ==
  (error.type = "MalformedResponse") =>
    /\ pc = "aborted"
    /\ Len(horizons_requests) = Len(jpl_horizons_data) + 1
    /\ Len(csvfile) = 1
    /\ Fields(csvfile[1]) = Header
    /\ sb_requests = <<>>
    /\ jpl_sb_data = <<>>
    /\ ~Printed("horizons_time")
    /\ ~Printed("table")
    /\ ~Printed("total")

C11_Witness ==
  /\ error.type = "MalformedResponse"
  /\ Len(jpl_horizons_data) = Len(major_bodies_dict) - 1
  /\ Len(csvfile) = 1

\* the service returned no more records than the request's limit asked for
LimitHonoured ==
  /\ Len(sb_requests) = 1
  /\ sb_requests[1].constraint.param = "limit"
  /\ Len(jpl_sb_data) <= sb_requests[1].constraint.limit

\* C12: in scenario2 with an accepted limit L, a completed run in which the service returned
\* at most the requested number of records wrote at most L - 1 data rows (major and small
\* together) and printed a grand total, the Sun included, of at most L.
C12_LimitBoundsDataset ==
  (pc = "done" /\ argv.scenario = "scenario2" /\ LimitHonoured) =>
    /\ Len(csvfile) - 1 <= argv.limit - 1
    /\ Len(jpl_horizons_data) + Len(jpl_sb_data) <= argv.limit - 1
    /\ TotalLine[2] <= argv.limit

C12_Witness ==
  /\ pc = "done"
  /\ argv.scenario = "scenario2"
  /\ LimitHonoured
  /\ Len(jpl_sb_data) >= 1
  /\ Len(jpl_sb_data) = sb_requests[1].constraint.limit
  /\ TotalLine[2] = argv.limit

=============================================================================
